---- MODULE Spec2Model ----
(***************************************************************************)
(* A model of VSR/Framework/SuperResolution.py (the SuperResolution base   *)
(* class) and VSR/Models/Espcn.py (the Espcn subclass).                    *)
(*                                                                         *)
(* The tensor engine is external: a tensor is a record carrying the        *)
(* identity the graph gave it (id), the operation that made it (op), the   *)
(* ids it was made from (src), its channel count (ch) and the chain of     *)
(* preprocessing operations applied since the placeholder (ops).           *)
(* Evaluating a tensor in a session yields a value that names the tensor.  *)
(***************************************************************************)
EXTENDS Integers, Sequences, FiniteSets, TLC

\* ------------------------------------------------------------------ bounds

\* most graph-building calls (compile or a direct build step) in one behaviour
MaxSteps == 3
\* largest `layers` argument given to Espcn
MaxLayers == 3
\* longest list of feature or label arrays given to a batch call
MaxArgs == 2

\* ------------------------------------------------------ tensors and values

T(id, o, src, ch, ops) == [id |-> id, op |-> o, src |-> src, ch |-> ch, ops |-> ops]

\* Python's None where a tensor is expected (summary_op before compile)
NoneT == T(0, "None", <<>>, 0, <<>>)

\* SuperResolution.__init__: the three tensors made at construction
global_steps == T(1, "variable", <<>>, 0, <<>>)
training_phase == T(2, "placeholder_bool", <<>>, 0, <<>>)
learning_rate == T(3, "placeholder_float32", <<>>, 0, <<>>)

Val(k, i) == [kind |-> k, idx |-> i]
NoneV == Val("none", 0)
TrueV == Val("bool", 1)
FalseV == Val("bool", 0)
LrV(r) == Val("lr", r)
\* the i-th array of a list of feature (label) arrays given by the caller
FeatureV(i) == Val("feature", i)
LabelV(i) == Val("label", i)

\* session.run on one fetch: an optimizer step yields None, a tensor its value
Eval(t) == IF t.op = "minimize" THEN NoneV ELSE Val("eval", t.id)

\* session.run on a list of fetches: one result per fetch, in order
Run(fetches) == [i \in 1..Len(fetches) |-> Eval(fetches[i])]

\* ----------------------------------------------------------- Python values

\* an argument as Python sees it: None, one object, or a list of objects
PyNone == [py |-> "none", items |-> <<>>]
PyScalar(x) == [py |-> "scalar", items |-> <<x>>]
PyList(s) == [py |-> "list", items |-> s]

\* Util.Utility.to_list(x, repeat): a list stays as it is, None becomes the
\* empty list, any other object x becomes [x] * repeat
to_list(x, repeat) ==
  CASE x.py = "list" -> x.items
    [] x.py = "none" -> <<>>
    [] OTHER -> [i \in 1..repeat |-> x.items[1]]

\* range(a, b) as the sequence a, a+1, ..., b-1 (empty when b <= a)
PyRange(a, b) == IF b > a THEN [i \in 1..(b - a) |-> a + i - 1] ELSE <<>>

Last(s) == s[Len(s)]

\* an insertion-ordered dict as a sequence of [k, v] entries
DictKeys(d) == [i \in 1..Len(d) |-> d[i].k]
DictValues(d) == [i \in 1..Len(d) |-> d[i].v]
DictHas(d, k) == \E i \in 1..Len(d) : d[i].k = k
DictGet(d, k) == d[CHOOSE i \in 1..Len(d) : d[i].k = k].v
\* d[k] = v: an existing key keeps its position, a new key goes last
DictSet(d, k, v) ==
  IF DictHas(d, k)
  THEN [i \in 1..Len(d) |-> IF d[i].k = k THEN [k |-> k, v |-> v] ELSE d[i]]
  ELSE Append(d, [k |-> k, v |-> v])

\* zip(keys, values) stops at the shorter of the two
Zip(ks, vs) ==
  LET n == IF Len(ks) < Len(vs) THEN Len(ks) ELSE Len(vs)
  IN [i \in 1..n |-> [k |-> ks[i], v |-> vs[i]]]

RECURSIVE DictFromPairs(_, _)
\* ret = {}; for k, v in pairs: ret[k] = v
DictFromPairs(pairs, d) ==
  IF pairs = <<>> THEN d
  ELSE DictFromPairs(Tail(pairs), DictSet(d, Head(pairs).k, Head(pairs).v))

\* ------------------------------------------------------------------- state

VARIABLES
  kind,            \* the class of the model: "base" (SuperResolution) or "espcn"
  rgba,            \* self.rgba
  layers,          \* self.layers (Espcn)
  scale,           \* self.scale
  weight_decay,    \* self.weight_decay, 0 when falsy
  inputs, inputs_preproc, label, outputs, loss, metrics,
  summary_op, compiled,
  nextId,          \* the next identity the graph hands out
  summaries,       \* the graph's summary collection (ids of the summarised tensors)
  op,              \* the last method called
  args,            \* its arguments
  calls,           \* the calls it made, in order
  err,             \* the exception it raised, "none" when it returned
  res,             \* what it returned or built
  pre,             \* the model's fields as they were before the call
  done,            \* how often each build step has completed
  nCompile,        \* how many compile() calls have returned
  nDirect,         \* how many build steps were called directly
  steps            \* how many graph-building calls were made

vars == <<kind, rgba, layers, scale, weight_decay, inputs, inputs_preproc, label,
          outputs, loss, metrics, summary_op, compiled, nextId, summaries,
          op, args, calls, err, res, pre, done, nCompile, nDirect, steps>>

config == <<kind, rgba, layers, scale, weight_decay>>
fields == <<inputs, inputs_preproc, label, outputs, loss, metrics, summary_op,
            compiled, nextId, summaries>>

\* the mutable part of self (and of the default graph) as one record
Self ==
  [inputs |-> inputs, inputs_preproc |-> inputs_preproc, label |-> label,
   outputs |-> outputs, loss |-> loss, metrics |-> metrics,
   summary_op |-> summary_op, compiled |-> compiled,
   nextId |-> nextId, summaries |-> summaries,
   err |-> "none", calls |-> <<>>, convs |-> <<>>, returned |-> "none",
   done |-> done]

\* a conv2d option as Python sees it: None, a string, a callable or a number
Opt(ty, str) == [ty |-> ty, s |-> str]
OptNone == Opt("none", "")

NoArgs == [feature |-> PyNone, label |-> PyNone, lr |-> 0,
           kernel_initializer |-> OptNone, kernel_regularizer |-> OptNone,
           activation |-> OptNone, use_batchnorm |-> FALSE]
NoRes == [feed |-> <<>>, fetches |-> <<>>, dict |-> <<>>, list |-> <<>>,
          summary |-> NoneV, returned |-> "none", convs |-> <<>>]

\* SuperResolution.__init__ / Espcn.__init__: the model made by
\* Espcn(scale_arg, layers=l, rgb_input=r, weight_decay=w) when k is "espcn",
\* by SuperResolution(scale_arg, rgb_input=r, weight_decay=w) when k is "base"
Construct(k, scale_arg, l, r, w) ==
  /\ kind = k
  /\ rgba = r
  /\ layers = l
  /\ scale = to_list(scale_arg, 2)
  /\ weight_decay = w
  /\ inputs = <<>> /\ inputs_preproc = <<>> /\ label = <<>>
  /\ outputs = <<>> /\ loss = <<>> /\ metrics = <<>>
  /\ summary_op = NoneT
  /\ compiled = FALSE
  /\ nextId = 4
  /\ summaries = <<>>
  /\ op = "init" /\ args = NoArgs /\ calls = <<>> /\ err = "none" /\ res = NoRes
  /\ pre = [inputs |-> <<>>, inputs_preproc |-> <<>>, label |-> <<>>,
            outputs |-> <<>>, loss |-> <<>>, metrics |-> <<>>,
            summary_op |-> NoneT, compiled |-> FALSE]
  /\ done = [graph |-> 0, loss |-> 0, summary |-> 0]
  /\ nCompile = 0
  /\ nDirect = 0
  /\ steps = 0

ScaleArgs == {PyScalar(2), PyList(<<2, 3>>)}

\* any model: either class, either colour mode, any layer count and scale
Init ==
  \E k \in {"base", "espcn"}, s \in ScaleArgs, r \in BOOLEAN :
    \E l \in (IF k = "espcn" THEN 1..MaxLayers ELSE {0}) :
      Construct(k, s, l, r, 1)

\* a model of either class with the default arguments (layers=3,
\* rgb_input=False, weight_decay=1e-4)
InitBatch ==
  \E k \in {"base", "espcn"} :
    Construct(k, PyScalar(2), IF k = "espcn" THEN 3 ELSE 0, FALSE, 1)

\* a base model with or without weight decay
InitConv ==
  \E w \in {0, 1} : Construct("base", PyScalar(2), 0, FALSE, w)

\* ------------------------------------------------------------- build steps

\* the range of values a preprocessed tensor can take, in thousandths, for
\* uint8 input: the chain of operations applied to [0, 255]
RECURSIVE ValueRange(_, _)
ValueRange(ops, r) ==
  IF ops = <<>> THEN r
  ELSE LET o == Head(ops)
           lo == r[1]
           hi == r[2]
           r2 == CASE o = "div_255" -> <<lo \div 255, hi \div 255>>
                   [] o = "mul_255" -> <<lo * 255, hi * 255>>
                   \* Y = 0.299 R + 0.587 G + 0.114 B
                   [] o = "yuv_slice_0_1" ->
                        <<(299 * lo + 587 * lo + 114 * lo) \div 1000,
                          (299 * hi + 587 * hi + 114 * hi) \div 1000>>
                   \* U = -0.147 R - 0.289 G + 0.436 B, V = 0.615 R - 0.515 G - 0.100 B
                   [] o = "yuv_slice_1_end" ->
                        <<(615 * lo - 515 * hi - 100 * hi) \div 1000,
                          (615 * hi - 515 * lo - 100 * lo) \div 1000>>
                   [] OTHER -> r
       IN ValueRange(Tail(ops), r2)

Uint8Range == <<0, 255 * 1000>>

\* SuperResolution.build_graph when rgba is false
SR_build_graph_gray(m) ==
  LET ph == T(m.nextId, "placeholder_uint8", <<>>, 1, <<>>)
      m1 == [m EXCEPT !.inputs = Append(@, ph)]
      cast == T(m.nextId + 1, "cast", <<Last(m1.inputs).id>>, 1, <<"cast_float32">>)
  IN [m1 EXCEPT !.inputs_preproc = Append(@, cast), !.nextId = @ + 2]

\* SR_build_graph_rgba with the two preprocessed tensors appended Y first
SR_build_graph_rgba_YFirst(m) ==
  LET ph == T(m.nextId, "placeholder_uint8", <<>>, 4, <<>>)
      m1 == [m EXCEPT !.inputs = Append(@, ph)]
      yuv == <<"cast_float32", "div_255", "drop_alpha", "rgb_to_yuv">>
      uv == T(m.nextId + 1, "slice", <<Last(m1.inputs).id>>, 2,
              yuv \o <<"yuv_slice_1_end">>)
      y == T(m.nextId + 2, "mul", <<Last(m1.inputs).id>>, 1,
             yuv \o <<"yuv_slice_0_1", "mul_255">>)
  IN [m1 EXCEPT !.inputs_preproc = Append(Append(@, y), uv), !.nextId = @ + 3]

\* SuperResolution.build_graph when rgba is true
SR_build_graph_rgba(m) ==
  LET ph == T(m.nextId, "placeholder_uint8", <<>>, 4, <<>>)
      m1 == [m EXCEPT !.inputs = Append(@, ph)]
      yuv == <<"cast_float32", "div_255", "drop_alpha", "rgb_to_yuv">>
      uv == T(m.nextId + 1, "slice", <<Last(m1.inputs).id>>, 2,
              yuv \o <<"yuv_slice_1_end">>)
      y == T(m.nextId + 2, "mul", <<Last(m1.inputs).id>>, 1,
             yuv \o <<"yuv_slice_0_1", "mul_255">>)
  IN [m1 EXCEPT !.inputs_preproc = Append(Append(@, uv), y), !.nextId = @ + 3]

\* SuperResolution.build_graph
SR_build_graph(m) ==
  IF ~rgba THEN SR_build_graph_gray(m) ELSE SR_build_graph_rgba(m)

\* SR_build_loss as a method that returns instead of raising
SR_build_loss_Returns(m) == m

\* SuperResolution.build_loss
SR_build_loss(m) == [m EXCEPT !.err = "NotImplementedError"]

\* SuperResolution.build_summary
SR_build_summary(m) == [m EXCEPT !.err = "NotImplementedError"]

\* one tf.layers.conv2d call of Espcn.build_graph
ConvLayer(x, filters, kernel_size, activation, out) ==
  [in |-> x, filters |-> filters, kernel_size |-> kernel_size,
   activation |-> activation, kernel_initializer |-> "he_normal",
   kernel_regularizer |-> "l2", batchnorm |-> FALSE, out |-> out]

\* MiddleRange with the loop running to layers instead of layers - 1
MiddleRange_OneMore == PyRange(1, layers)

\* Espcn.build_graph: the values the middle-layer loop runs over
MiddleRange == PyRange(1, layers - 1)

RECURSIVE StackMiddle(_, _)
\* Espcn.build_graph: the loop over the middle layers
StackMiddle(r, convs) ==
  IF r = <<>> THEN convs
  ELSE StackMiddle(Tail(r),
         Append(convs, ConvLayer(Last(convs).out, 32, 3, "tanh", Last(convs).out + 1)))

\* Espcn.build_graph
Espcn_build_graph(m) ==
  LET m1 == SR_build_graph(m)
      first == ConvLayer(Last(m1.inputs_preproc).id, 64, 5, "tanh", m1.nextId)
      mid == StackMiddle(MiddleRange, <<first>>)
      final == ConvLayer(Last(mid).out, scale[1] * scale[2], 3, "none", Last(mid).out + 1)
      \* Utility.pixel_shift(x, self.scale, 1): one upscaled single-channel image
      x == T(final.out + 1, "pixel_shift", <<final.out>>, 1, <<>>)
  IN [m1 EXCEPT !.convs = @ \o Append(mid, final),
                !.outputs = Append(@, x),
                !.nextId = x.id + 1]

\* Espcn.build_loss
Espcn_build_loss(m) ==
  LET ph == T(m.nextId, "placeholder_uint8", <<>>, 1, <<>>)
      m1 == [m EXCEPT !.label = Append(@, ph), !.nextId = @ + 1]
      y_true == T(m1.nextId, "cast", <<Last(m1.label).id>>, 1, <<"cast_float32">>)
  IN IF m1.outputs = <<>>
     THEN [m1 EXCEPT !.nextId = @ + 1, !.err = "IndexError"]
     ELSE
       LET y_pred == Last(m1.outputs)
           mse == T(m1.nextId + 1, "mean_squared_error", <<y_true.id, y_pred.id>>, 0, <<>>)
           regular_loss == T(m1.nextId + 2, "regular_loss", <<y_pred.id>>, 0, <<>>)
           minimize == T(m1.nextId + 3, "minimize", <<mse.id, regular_loss.id>>, 0, <<>>)
           psnr == T(m1.nextId + 4, "psnr", <<y_true.id, y_pred.id>>, 0, <<>>)
           ssim == T(m1.nextId + 5, "ssim", <<y_true.id, y_pred.id>>, 0, <<>>)
       IN [m1 EXCEPT
             !.loss = Append(@, minimize),
             !.metrics = DictSet(DictSet(DictSet(DictSet(@,
                           "mse", mse), "regularization", regular_loss),
                           "psnr", psnr), "ssim", ssim),
             !.nextId = @ + 6]

\* Espcn.build_summary
Espcn_build_summary(m) ==
  IF ~DictHas(m.metrics, "mse")
  THEN [m EXCEPT !.err = "KeyError"]
  ELSE [m EXCEPT !.summaries = @ \o
          <<DictGet(m.metrics, "mse").id, DictGet(m.metrics, "regularization").id,
            DictGet(m.metrics, "psnr").id, DictGet(m.metrics, "ssim").id>>]

\* self.build_graph(), dispatched on the class of self
BuildGraph(m) ==
  LET m0 == [m EXCEPT !.calls = Append(@, "build_graph")]
      m1 == IF kind = "espcn" THEN Espcn_build_graph(m0) ELSE SR_build_graph(m0)
  IN IF m1.err = "none" THEN [m1 EXCEPT !.done.graph = @ + 1] ELSE m1

\* self.build_loss(), dispatched on the class of self
BuildLoss(m) ==
  LET m0 == [m EXCEPT !.calls = Append(@, "build_loss")]
      m1 == IF kind = "espcn" THEN Espcn_build_loss(m0) ELSE SR_build_loss(m0)
  IN IF m1.err = "none" THEN [m1 EXCEPT !.done.loss = @ + 1] ELSE m1

\* self.build_summary(), dispatched on the class of self
BuildSummary(m) ==
  LET m0 == [m EXCEPT !.calls = Append(@, "build_summary")]
      m1 == IF kind = "espcn" THEN Espcn_build_summary(m0) ELSE SR_build_summary(m0)
  IN IF m1.err = "none" THEN [m1 EXCEPT !.done.summary = @ + 1] ELSE m1

\* tf.summary.merge_all(): None when the graph holds no summary
MergeAll(m) ==
  [m EXCEPT !.calls = Append(@, "merge_all"),
            !.summary_op = IF m.summaries = <<>> THEN NoneT
                           ELSE T(m.nextId, "merge_summary", m.summaries, 0, <<>>),
            !.nextId = IF m.summaries = <<>> THEN @ ELSE @ + 1]

\* compile with build_summary called before build_loss
compile_SummaryFirst(m) ==
  LET m1 == BuildGraph(m) IN
  IF m1.err # "none" THEN m1 ELSE
  LET m2 == BuildSummary(m1) IN
  IF m2.err # "none" THEN m2 ELSE
  LET m3 == BuildLoss(m2) IN
  IF m3.err # "none" THEN m3 ELSE
  LET m4 == MergeAll(m3) IN
  [m4 EXCEPT !.compiled = TRUE, !.calls = Append(@, "set_compiled"),
             !.returned = "self"]

\* compile guarded by the compiled flag: a compiled model is returned as it is
compile_Guarded(m) ==
  IF m.compiled THEN [m EXCEPT !.returned = "self"] ELSE
  LET m1 == BuildGraph(m) IN
  IF m1.err # "none" THEN m1 ELSE
  LET m2 == BuildLoss(m1) IN
  IF m2.err # "none" THEN m2 ELSE
  LET m3 == BuildSummary(m2) IN
  IF m3.err # "none" THEN m3 ELSE
  LET m4 == MergeAll(m3) IN
  [m4 EXCEPT !.compiled = TRUE, !.calls = Append(@, "set_compiled"),
             !.returned = "self"]

\* SuperResolution.compile: an exception of a build step ends the call
compile(m) ==
  LET m1 == BuildGraph(m) IN
  IF m1.err # "none" THEN m1 ELSE
  LET m2 == BuildLoss(m1) IN
  IF m2.err # "none" THEN m2 ELSE
  LET m3 == BuildSummary(m2) IN
  IF m3.err # "none" THEN m3 ELSE
  LET m4 == MergeAll(m3) IN
  [m4 EXCEPT !.compiled = TRUE, !.calls = Append(@, "set_compiled"),
             !.returned = "self"]

\* ------------------------------------------------------------- batch calls

RECURSIVE Bind_FirstArray(_, _, _, _)
\* Bind with every placeholder fed the first array
Bind_FirstArray(fd, phs, arrs, i) ==
  IF i > Len(phs) THEN [feed |-> fd, err |-> "none"]
  ELSE IF i > Len(arrs) THEN [feed |-> fd, err |-> "IndexError"]
  ELSE Bind_FirstArray((phs[i].id :> arrs[1]) @@ fd, phs, arrs, i + 1)

RECURSIVE Bind(_, _, _, _)
\* for i in range(len(phs)): feed_dict[phs[i]] = arrs[i]
Bind(fd, phs, arrs, i) ==
  IF i > Len(phs) THEN [feed |-> fd, err |-> "none"]
  ELSE IF i > Len(arrs) THEN [feed |-> fd, err |-> "IndexError"]
  ELSE Bind((phs[i].id :> arrs[i]) @@ fd, phs, arrs, i + 1)

\* the two binding loops of a batch call, the second only if the first returned
BindBoth(fd, m, feature, lab) ==
  LET b == Bind(fd, m.inputs, feature, 1)
  IN IF b.err = "none" THEN Bind(b.feed, m.label, lab, 1) ELSE b

Raised(fd, e) == [NoRes EXCEPT !.feed = fd] @@ [err |-> e]

\* train_batch with the loss operations fetched before the metrics
train_batch_LossFirst(m, a) ==
  LET feature == to_list(a.feature, 1)
      lab == to_list(a.label, 1)
      b == BindBoth((training_phase.id :> TrueV) @@ (learning_rate.id :> LrV(a.lr)),
                    m, feature, lab)
      fetches == m.loss \o DictValues(m.metrics)
      out == Run(fetches)
  IN IF b.err # "none" THEN Raised(b.feed, b.err)
     ELSE [NoRes EXCEPT !.feed = b.feed, !.fetches = fetches,
                        !.dict = DictFromPairs(Zip(DictKeys(m.metrics), out), <<>>),
                        !.returned = "dict"] @@ [err |-> "none"]

\* SuperResolution.train_batch
train_batch(m, a) ==
  LET feature == to_list(a.feature, 1)
      lab == to_list(a.label, 1)
      b == BindBoth((training_phase.id :> TrueV) @@ (learning_rate.id :> LrV(a.lr)),
                    m, feature, lab)
      fetches == DictValues(m.metrics) \o m.loss
      out == Run(fetches)
  IN IF b.err # "none" THEN Raised(b.feed, b.err)
     ELSE [NoRes EXCEPT !.feed = b.feed, !.fetches = fetches,
                        !.dict = DictFromPairs(Zip(DictKeys(m.metrics), out), <<>>),
                        !.returned = "dict"] @@ [err |-> "none"]

\* SuperResolution.validate_batch; session.run refuses a fetch that is None
validate_batch(m, a) ==
  LET feature == to_list(a.feature, 1)
      lab == to_list(a.label, 1)
      b == BindBoth((training_phase.id :> FalseV), m, feature, lab)
      fetches == DictValues(m.metrics) \o <<m.summary_op>>
      out == Run(fetches)
  IN IF b.err # "none" THEN Raised(b.feed, b.err)
     ELSE IF m.summary_op = NoneT THEN Raised(b.feed, "TypeError")
     ELSE [NoRes EXCEPT !.feed = b.feed, !.fetches = fetches,
                        !.dict = DictFromPairs(
                                   Zip(DictKeys(m.metrics), SubSeq(out, 1, Len(out) - 1)),
                                   <<>>),
                        !.summary = Last(out),
                        !.returned = "dict_and_summary"] @@ [err |-> "none"]

\* test_batch that fetches the metrics whether or not labels were given
test_batch_AlwaysMetrics(m, a) ==
  LET feature == to_list(a.feature, 1)
      lab == to_list(a.label, 1)
      b1 == Bind((training_phase.id :> FalseV), m.inputs, feature, 1)
      b2 == IF lab # <<>> THEN Bind(b1.feed, m.label, lab, 1) ELSE b1
      fetches == m.outputs \o DictValues(m.metrics)
  IN IF b1.err # "none" THEN Raised(b1.feed, b1.err)
     ELSE IF b2.err # "none" THEN Raised(b2.feed, b2.err)
     ELSE [NoRes EXCEPT !.feed = b2.feed, !.fetches = fetches,
                        !.list = Run(fetches),
                        !.returned = "list"] @@ [err |-> "none"]

\* SuperResolution.test_batch
test_batch(m, a) ==
  LET feature == to_list(a.feature, 1)
      lab == to_list(a.label, 1)
      b1 == Bind((training_phase.id :> FalseV), m.inputs, feature, 1)
  IN IF b1.err # "none" THEN Raised(b1.feed, b1.err)
     ELSE IF lab # <<>>
     THEN LET b2 == Bind(b1.feed, m.label, lab, 1)
              fetches == m.outputs \o DictValues(m.metrics)
          IN IF b2.err # "none" THEN Raised(b2.feed, b2.err)
             ELSE [NoRes EXCEPT !.feed = b2.feed, !.fetches = fetches,
                                !.list = Run(fetches),
                                !.returned = "list"] @@ [err |-> "none"]
     ELSE [NoRes EXCEPT !.feed = b1.feed, !.fetches = m.outputs,
                        !.list = Run(m.outputs),
                        !.returned = "list"] @@ [err |-> "none"]

\* ------------------------------------------------------------------ conv2d

IsStr(v) == v.ty = "str"
Callable(v) == v.ty = "callable"
\* Python truthiness: None, '' and 0 are falsy
Truthy(v) ==
  CASE v.ty = "none" -> FALSE
    [] v.ty = "str" -> v.s # ""
    [] v.ty = "int" -> v.s # "0"
    [] OTHER -> TRUE

\* SuperResolution.conv2d: the kernel initializer chosen, or the exception
conv2d_ki(kernel_initializer) ==
  IF IsStr(kernel_initializer)
  THEN IF kernel_initializer.s = "he_normal" THEN "he_normal" ELSE "None"
  ELSE IF Callable(kernel_initializer) THEN "callable"
  ELSE IF Truthy(kernel_initializer) THEN "ValueError"
  ELSE "None"

\* SuperResolution.conv2d: the kernel regularizer chosen, or the exception
conv2d_kr(kernel_regularizer) ==
  IF IsStr(kernel_regularizer)
  THEN IF kernel_regularizer.s = "l1"
       THEN IF weight_decay # 0 THEN "l1" ELSE "None"
       ELSE IF kernel_regularizer.s = "l2"
       THEN IF weight_decay # 0 THEN "l2" ELSE "None"
       ELSE "None"
  ELSE IF Callable(kernel_regularizer) THEN "callable"
  ELSE IF Truthy(kernel_regularizer) THEN "ValueError"
  ELSE "None"

\* conv2d_activator with the second test reading the activation name
conv2d_activator_TestsName(activation) ==
  IF IsStr(activation)
  THEN IF activation.s = "relu" THEN "relu"
       ELSE IF activation.s = "tanh" THEN "tanh"
       ELSE "None"
  ELSE IF Callable(activation) THEN "callable"
  ELSE "ValueError"

\* SuperResolution.conv2d: the activator chosen for a truthy activation, or
\* the exception; the second test reads the activator slot, which is None
conv2d_activator(activation) ==
  LET activator == "None"
  IN IF IsStr(activation)
     THEN IF activation.s = "relu" THEN "relu"
          ELSE IF activator = "tanh" THEN "tanh"
          ELSE activator
     ELSE IF Callable(activation) THEN "callable"
     ELSE "ValueError"

\* SuperResolution.conv2d: [err, convs (the layer built, if any), nextId]
conv2d(m, a) ==
  LET ki == conv2d_ki(a.kernel_initializer)
      kr == conv2d_kr(a.kernel_regularizer)
      layer == [in |-> 0, filters |-> 8, kernel_size |-> 3, activation |-> "none",
                kernel_initializer |-> ki, kernel_regularizer |-> kr,
                batchnorm |-> a.use_batchnorm, out |-> m.nextId]
      built == [m EXCEPT !.convs = <<layer>>, !.nextId = @ + 1]
  IN IF ki = "ValueError" \/ kr = "ValueError" THEN [m EXCEPT !.err = "ValueError"]
     ELSE IF ~Truthy(a.activation) THEN built
     ELSE LET activator == conv2d_activator(a.activation)
          IN IF activator = "ValueError" THEN [built EXCEPT !.err = "ValueError"]
             \* x = activator(x) with activator None
             ELSE IF activator = "None" THEN [built EXCEPT !.err = "TypeError"]
             ELSE [built EXCEPT !.convs[1].activation = activator]

\* ----------------------------------------------------------------- actions

Snapshot ==
  [inputs |-> inputs, inputs_preproc |-> inputs_preproc, label |-> label,
   outputs |-> outputs, loss |-> loss, metrics |-> metrics,
   summary_op |-> summary_op, compiled |-> compiled]

\* the state after a graph-building call that left self as m
Commit(o, m) ==
  /\ inputs' = m.inputs /\ inputs_preproc' = m.inputs_preproc
  /\ label' = m.label /\ outputs' = m.outputs /\ loss' = m.loss
  /\ metrics' = m.metrics /\ summary_op' = m.summary_op
  /\ compiled' = m.compiled /\ nextId' = m.nextId /\ summaries' = m.summaries
  /\ op' = o /\ args' = NoArgs /\ calls' = m.calls /\ err' = m.err
  /\ res' = [NoRes EXCEPT !.returned = m.returned, !.convs = m.convs]
  /\ pre' = Snapshot
  /\ done' = m.done
  /\ steps' = steps + 1
  /\ UNCHANGED config

\* model.compile()
Compile ==
  /\ steps < MaxSteps
  /\ LET m == compile(Self)
     IN /\ Commit("compile", m)
        /\ nCompile' = IF m.err = "none" THEN nCompile + 1 ELSE nCompile
  /\ UNCHANGED nDirect

\* model.build_graph(), called directly
CallBuildGraph ==
  /\ steps < MaxSteps
  /\ Commit("build_graph", BuildGraph(Self))
  /\ nDirect' = nDirect + 1
  /\ UNCHANGED nCompile

\* model.build_loss(), called directly
CallBuildLoss ==
  /\ steps < MaxSteps
  /\ Commit("build_loss", BuildLoss(Self))
  /\ nDirect' = nDirect + 1
  /\ UNCHANGED nCompile

\* model.build_summary(), called directly
CallBuildSummary ==
  /\ steps < MaxSteps
  /\ Commit("build_summary", BuildSummary(Self))
  /\ nDirect' = nDirect + 1
  /\ UNCHANGED nCompile


\* the arrays a caller passes: one array, or a list of up to MaxArgs arrays
FeatureArgs ==
  {PyScalar(FeatureV(1))} \cup {PyList([i \in 1..n |-> FeatureV(i)]) : n \in 0..MaxArgs}
LabelArgs ==
  {PyScalar(LabelV(1))} \cup {PyList([i \in 1..n |-> LabelV(i)]) : n \in 0..MaxArgs}

\* the state after a batch call with arguments a that ended as r
Observe(o, a, r) ==
  /\ op' = o /\ args' = a /\ calls' = <<>> /\ err' = r.err
  /\ res' = [f \in DOMAIN NoRes |-> r[f]]
  /\ pre' = Snapshot
  /\ UNCHANGED <<config, fields, done, nCompile, nDirect, steps>>

\* model.train_batch(feature, label, learning_rate)
TrainBatch ==
  \E f \in FeatureArgs, l \in LabelArgs, lr \in {1, 2} :
    LET a == [NoArgs EXCEPT !.feature = f, !.label = l, !.lr = lr]
    IN Observe("train_batch", a, train_batch(Self, a))

\* model.validate_batch(feature, label)
ValidateBatch ==
  \E f \in FeatureArgs, l \in LabelArgs :
    LET a == [NoArgs EXCEPT !.feature = f, !.label = l]
    IN Observe("validate_batch", a, validate_batch(Self, a))

\* model.test_batch(inputs, label=None)
TestBatch ==
  \E f \in FeatureArgs, l \in LabelArgs \cup {PyNone} :
    LET a == [NoArgs EXCEPT !.feature = f, !.label = l]
    IN Observe("test_batch", a, test_batch(Self, a))

InitializerArgs ==
  {OptNone, Opt("str", "he_normal"), Opt("str", "glorot_uniform"),
   Opt("callable", "fn"), Opt("int", "5")}
RegularizerArgs ==
  {OptNone, Opt("str", "l1"), Opt("str", "l2"), Opt("str", "l3"),
   Opt("callable", "fn"), Opt("int", "5")}
ActivationArgs ==
  {OptNone, Opt("str", ""), Opt("str", "relu"), Opt("str", "tanh"),
   Opt("str", "elu"), Opt("callable", "fn"), Opt("int", "5")}

\* model.conv2d(x, 8, 3, activation=, use_batchnorm=, kernel_initializer=,
\* kernel_regularizer=)
Conv2d ==
  /\ steps < MaxSteps
  /\ \E ki \in InitializerArgs, kr \in RegularizerArgs, act \in ActivationArgs,
        bn \in BOOLEAN :
       LET a == [NoArgs EXCEPT !.kernel_initializer = ki, !.kernel_regularizer = kr,
                               !.activation = act, !.use_batchnorm = bn]
           m == conv2d(Self, a)
       IN /\ op' = "conv2d" /\ args' = a /\ calls' = <<>> /\ err' = m.err
          /\ res' = [NoRes EXCEPT !.convs = m.convs]
          /\ nextId' = m.nextId
          /\ pre' = Snapshot
          /\ steps' = steps + 1
          /\ UNCHANGED <<config, inputs, inputs_preproc, label, outputs, loss, metrics,
                         summary_op, compiled, summaries, done, nCompile, nDirect>>

\* the build lifecycle
Next == Compile \/ CallBuildGraph \/ CallBuildLoss \/ CallBuildSummary

Spec == Init /\ [][Next]_vars

\* the build lifecycle interleaved with the batch calls
NextBatch ==
  \/ Compile \/ CallBuildGraph \/ CallBuildLoss \/ CallBuildSummary
  \/ TrainBatch \/ ValidateBatch \/ TestBatch

SpecBatch == InitBatch /\ [][NextBatch]_vars

\* the convolution helper
NextConv == Conv2d

SpecConv == InitConv /\ [][NextConv]_vars

\* ------------------------------------------------------------- properties

Max(a, b) == IF a > b THEN a ELSE b
BuildCalls == <<"build_graph", "build_loss", "build_summary">>
Unchanged(f) == Self[f] = pre[f]
\* the sequence s is the sequence p with exactly n entries appended
Appended(s, p, n) == Len(s) = Len(p) + n /\ SubSeq(s, 1, Len(p)) = p

\* C1: a compile() call on a concrete (Espcn) model calls build_graph, then
\* build_loss, then build_summary, each exactly once, only then merges the
\* summaries and sets compiled, and returns the model itself; a compile() call
\* that raises leaves compiled as it was; and whenever compiled is true each of
\* the three build steps has completed at least once.
C1_CompileOrder ==
  /\ (op = "compile" /\ kind = "espcn") =>
       /\ calls = BuildCalls \o <<"merge_all", "set_compiled">>
       /\ err = "none"
       /\ summary_op.op = "merge_summary"
       /\ compiled
       /\ res.returned = "self"
  /\ (op = "compile" /\ err # "none") => compiled = pre.compiled
  /\ compiled => (done.graph >= 1 /\ done.loss >= 1 /\ done.summary >= 1)

C1_Witness == op = "compile" /\ kind = "espcn" /\ compiled /\ pre.compiled

\* C6: build_loss and build_summary of the base class always raise
\* NotImplementedError; compile() on the base class therefore raises it after
\* calling build_graph and build_loss only, never reaching build_summary or
\* the summary merge, and a base model is never compiled.
C6_BaseNotImplemented ==
  kind = "base" =>
    /\ op \in {"build_loss", "build_summary"} => err = "NotImplementedError"
    /\ op = "compile" =>
         /\ err = "NotImplementedError"
         /\ calls = <<"build_graph", "build_loss">>
         /\ res.returned = "none"
    /\ ~compiled
    /\ summary_op = NoneT
    /\ done.loss = 0 /\ done.summary = 0

C6_Witness == kind = "base" /\ op = "compile" /\ err = "NotImplementedError"

\* C7: one call of the base build_graph appends exactly one input placeholder
\* in both colour modes: in grayscale mode it has one channel and exactly one
\* preprocessed tensor, its float cast, is appended; in RGBA mode it has four
\* channels and exactly two preprocessed tensors are appended, first the
\* two UV channels and second the Y channel, whose values range over
\* [0, 255]. Labels, outputs, losses and metrics are unchanged.
C7_BaseBuildGraph ==
  (op = "build_graph" /\ kind = "base") =>
    LET ph == Last(inputs)
        n == Len(inputs_preproc)
    IN /\ err = "none"
       /\ Appended(inputs, pre.inputs, 1)
       /\ ph.op = "placeholder_uint8"
       /\ ~rgba =>
            /\ ph.ch = 1
            /\ Appended(inputs_preproc, pre.inputs_preproc, 1)
            /\ inputs_preproc[n].op = "cast"
            /\ inputs_preproc[n].src = <<ph.id>>
            /\ inputs_preproc[n].ops = <<"cast_float32">>
       /\ rgba =>
            /\ ph.ch = 4
            /\ Appended(inputs_preproc, pre.inputs_preproc, 2)
            /\ inputs_preproc[n - 1].src = <<ph.id>>
            /\ inputs_preproc[n - 1].ch = 2
            /\ Last(inputs_preproc[n - 1].ops) = "yuv_slice_1_end"
            /\ inputs_preproc[n].src = <<ph.id>>
            /\ inputs_preproc[n].ch = 1
            /\ \E i \in 1..Len(inputs_preproc[n].ops) :
                 inputs_preproc[n].ops[i] = "yuv_slice_0_1"
            /\ ValueRange(inputs_preproc[n].ops, Uint8Range) = Uint8Range
       /\ Unchanged("label") /\ Unchanged("outputs")
       /\ Unchanged("loss") /\ Unchanged("metrics")

C7_Witness ==
  /\ op = "build_graph" /\ kind = "base" /\ rgba
  /\ pre.inputs = <<>> /\ pre.inputs_preproc = <<>>
  /\ Len(inputs) = 1 /\ Len(inputs_preproc) = 2

\* C10 as claimed: Espcn.build_graph with layers = N stacks exactly N
\* convolution layers, the last with scale[0] * scale[1] filters, and appends
\* exactly one tensor to outputs.
C10_Claimed ==
  (op \in {"build_graph", "compile"} /\ kind = "espcn") =>
    /\ Len(res.convs) = layers
    /\ Last(res.convs).filters = scale[1] * scale[2]
    /\ Appended(outputs, pre.outputs, 1)

\* C10 as amended: Espcn.build_graph with layers = N stacks exactly
\* max(N, 2) convolution layers, each fed by the one before: a first layer
\* (64 filters, kernel 5, tanh) on the last preprocessed input, max(N - 2, 0)
\* middle layers (32 filters, kernel 3, tanh) and a final layer with
\* scale[0] * scale[1] filters, kernel 3 and no activation; and it appends
\* exactly one tensor, the pixel shift of the final layer, to outputs.
C10_Amended ==
  (op \in {"build_graph", "compile"} /\ kind = "espcn") =>
    LET c == res.convs
        n == Len(c)
    IN /\ n = Max(layers, 2)
       /\ c[1].filters = 64 /\ c[1].kernel_size = 5 /\ c[1].activation = "tanh"
       /\ c[1].in = Last(inputs_preproc).id
       /\ \A i \in 2..(n - 1) :
            c[i].filters = 32 /\ c[i].kernel_size = 3 /\ c[i].activation = "tanh"
       /\ \A i \in 2..n : c[i].in = c[i - 1].out
       /\ c[n].filters = scale[1] * scale[2] /\ c[n].kernel_size = 3
       /\ c[n].activation = "none"
       /\ Appended(outputs, pre.outputs, 1)
       /\ Last(outputs).op = "pixel_shift" /\ Last(outputs).src = <<c[n].out>>

C10_Witness ==
  op = "build_graph" /\ kind = "espcn" /\ layers = 1 /\ Len(res.convs) = 2


BatchOps == {"train_batch", "validate_batch", "test_batch"}
GivenFeatures == to_list(args.feature, 1)
GivenLabels == to_list(args.label, 1)
Fed(ph) == ph.id \in DOMAIN res.feed

\* C2: when train_batch, validate_batch or test_batch is given as many
\* feature arrays as there are input placeholders and as many label arrays as
\* there are label placeholders, feature array i is fed to input placeholder
\* i and (where labels are bound) label array j to label placeholder j, no
\* index is out of range, and no array is fed to a placeholder of another
\* index or of the other kind.
C2_PositionalFeed ==
  (/\ op \in BatchOps
   /\ Len(GivenFeatures) = Len(inputs)
   /\ Len(GivenLabels) = Len(label)) =>
    /\ err # "IndexError"
    /\ \A i \in 1..Len(inputs) :
         Fed(inputs[i]) /\ res.feed[inputs[i].id] = GivenFeatures[i]
    /\ \A j \in 1..Len(label) :
         Fed(label[j]) /\ res.feed[label[j].id] = GivenLabels[j]
    /\ \A id \in DOMAIN res.feed :
         LET v == res.feed[id]
         IN /\ v.kind = "feature" => (v.idx <= Len(inputs) /\ inputs[v.idx].id = id)
            /\ v.kind = "label" => (v.idx <= Len(label) /\ label[v.idx].id = id)

C2_Witness ==
  /\ op = "validate_batch" /\ err = "none"
  /\ Len(inputs) = 2 /\ Len(label) = 2
  /\ Len(GivenFeatures) = 2 /\ Len(GivenLabels) = 2

C4_TestBatch ==
  op = "test_batch" =>
    /\ Fed(training_phase) /\ res.feed[training_phase.id] = FalseV
    /\ ~Fed(learning_rate)
    /\ err = "none" =>
         /\ res.returned = "list"
         /\ IF GivenLabels = <<>>
            THEN /\ \A j \in 1..Len(label) : ~Fed(label[j])
                 /\ Len(res.list) = Len(outputs)
                 /\ \A i \in 1..Len(outputs) : res.list[i] = Val("eval", outputs[i].id)
            ELSE /\ \A j \in 1..Len(label) :
                      Fed(label[j]) /\ res.feed[label[j].id] = GivenLabels[j]
                 /\ Len(res.list) = Len(outputs) + Len(metrics)
                 /\ \A i \in 1..Len(outputs) : res.list[i] = Val("eval", outputs[i].id)
                 /\ \A i \in 1..Len(metrics) :
                      res.list[Len(outputs) + i] = Val("eval", metrics[i].v.id)

C4_Witness ==
  /\ op = "test_batch" /\ err = "none" /\ args.label = PyNone
  /\ compiled /\ Len(label) = 1 /\ Len(metrics) = 4
  /\ Len(res.list) = 1

MetricNames == <<"mse", "regularization", "psnr", "ssim">>

\* C8: compile() is not guarded by the compiled flag: a call on a compiled
\* Espcn makes the three build calls again. On an Espcn built by compile()
\* calls alone, inputs, outputs, label and loss each hold as many entries as
\* compile() calls have returned, so a train_batch that returns was given at
\* least that many feature arrays and label arrays, while metrics holds
\* exactly the keys mse, regularization, psnr, ssim, whose tensors were made
\* after the last label placeholder from the last output.
C8_Recompile ==
  kind = "espcn" =>
    /\ (op = "compile" /\ pre.compiled) =>
         /\ Len(calls) >= 3
         /\ SubSeq(calls, 1, 3) = BuildCalls
         /\ Appended(inputs, pre.inputs, 1)
    /\ nDirect = 0 =>
         /\ Len(inputs) = nCompile /\ Len(outputs) = nCompile
         /\ Len(label) = nCompile /\ Len(loss) = nCompile
         /\ (op = "train_batch" /\ err = "none") =>
              (Len(GivenFeatures) >= nCompile /\ Len(GivenLabels) >= nCompile)
         /\ nCompile >= 1 =>
              /\ DictKeys(metrics) = MetricNames
              /\ \A i \in 1..Len(metrics) :
                   /\ metrics[i].v.id > Last(label).id
                   /\ Last(metrics[i].v.src) = Last(outputs).id

C8_Witness ==
  /\ kind = "espcn" /\ nDirect = 0 /\ nCompile = 2
  /\ op = "train_batch" /\ err = "none" /\ Len(GivenFeatures) = 2

Unsupported(v, names) == IsStr(v) /\ v.s \notin names

\* C5 as claimed: a conv2d call given a string other than 'he_normal' as
\* kernel_initializer, other than 'l1' or 'l2' as kernel_regularizer, or other
\* than 'relu' or 'tanh' as activation raises ValueError and builds no layer.
C5_Claimed ==
  (/\ op = "conv2d"
   /\ \/ Unsupported(args.kernel_initializer, {"he_normal"})
      \/ Unsupported(args.kernel_regularizer, {"l1", "l2"})
      \/ Unsupported(args.activation, {"relu", "tanh"})) =>
    (err = "ValueError" /\ res.convs = <<>>)

\* C9: in conv2d no string given as activation selects the tanh activator:
\* of the strings only 'relu' selects an activator, and a call with
\* activation='tanh' that gets past the initializer and regularizer checks
\* builds the layer and then fails calling the unset activator.
C9_TanhNeverSelected ==
  (op = "conv2d" /\ IsStr(args.activation)) =>
    /\ \A i \in 1..Len(res.convs) :
         /\ res.convs[i].activation \in {"relu", "none"}
         /\ res.convs[i].activation = "relu" <=> args.activation.s = "relu"
    /\ (args.activation.s = "tanh" /\ err # "ValueError") =>
         (err = "TypeError" /\ Len(res.convs) = 1)

C9_Witness ==
  /\ op = "conv2d" /\ args.activation = Opt("str", "tanh")
  /\ err = "TypeError" /\ Len(res.convs) = 1 /\ res.convs[1].activation = "none"

====
